---- MODULE Spec2Model ----
(***************************************************************************)
(* Model of app.py, the Streamlit "Medical Image Analyzer".                *)
(*                                                                         *)
(* Streamlit executes the whole script top to bottom on every widget       *)
(* interaction (a "rerun").  An uncaught exception aborts the rerun at the *)
(* raising line; st.session_state, the st.cache_resource cache and the     *)
(* filesystem survive it.  Spec takes one rerun of one session as one      *)
(* action.  SpecLoad interleaves the script runs of several sessions that  *)
(* start while the cache is cold, at the granularity of the steps of the   *)
(* st.cache_resource wrapper around load_model().                          *)
(***************************************************************************)
EXTENDS Integers, Sequences, FiniteSets, TLC

\* ---------------------------------------------------------------- bounds
MaxBoxes == 2       \* boxes the detector emits for one image
MaxRuns == 2        \* Analyze clicks, each creating one temp file
NumCallers == 3     \* sessions starting concurrently
MaxCalls == 2       \* script runs of each session

\* ------------------------------------------------------- values and inputs
\* The label table stored in the weights file (a sample: best.pt is not
\* part of the sources).
LabelNames == <<"glioma", "meningioma">>

\* model.names: class index -> label, a dict keyed 0..nc-1.
names == [c \in 0..(Len(LabelNames) - 1) |-> LabelNames[c + 1]]

\* Class indices a box may carry; the last one has no label.
ClassIds == 0..Len(LabelNames)

\* box.conf is a float32 tensor and float() of it is exact, so a confidence
\* is a binary fraction: the model counts it in units of 1/ConfScale.
ConfScale == 2 ^ 16

\* The sample boxes: one per class index.  Even indices get the confidence
\* 18432/65536 = 0.28125 and odd ones 40960/65536 = 0.625; both are ties of
\* one of the two formats below.
ConfOf(c) == IF c % 2 = 0 THEN 18432 ELSE 40960

Boxes == {[cls |-> c, conf |-> ConfOf(c)] : c \in ClassIds}

BoxSeqs == UNION {[1..n -> Boxes] : n \in 0..MaxBoxes}

\* What the uploader holds: nothing, bytes that are no image (empty
\* included), an image cut off after its header, or a decodable image
\* of the given PIL mode.
Undecodable == {"notimage", "truncated"}

Modes == {"RGB", "RGBA"}

UploadKinds == Undecodable \cup Modes

Keys == {"results", "result_img", "result_pil", "temp_file_path"}

EmptyState == [k \in {} |-> 0]

\* ----------------------------------------------------------------- state
VARIABLES
    uploaded,       \* "none" or the kind of the file in st.file_uploader
    session_state,  \* st.session_state: function on a subset of Keys
    files,          \* temp files that exist on disk
    nextTmp,        \* next fresh temp file name
    cache,          \* st.cache_resource entry of load_model: 0 or instance
    loadCount,      \* YOLO(model_path) constructions completed
    lastRun,        \* what the most recent rerun did and put on the page
    pc, got, lock, calls   \* SpecLoad: position, handle, compute lock, runs

vars == <<uploaded, session_state, files, nextTmp, cache, loadCount,
          lastRun, pc, got, lock, calls>>

loadVars == <<pc, got, lock, calls>>

\* ------------------------------------------------------- pure functions
\* Python's float formatting: the exact binary value num/den rounded to
\* the nearest integer, ties to even.
RoundHalfEven(num, den) ==
    LET q == num \div den
        r == num % den
    IN  IF 2 * r > den THEN q + 1
        ELSE IF 2 * r < den THEN q
        ELSE IF q % 2 = 0 THEN q ELSE q + 1

\* f"{conf:.2f}": two decimals, result in units of 1e-2.
Fmt2(conf) == RoundHalfEven(conf * 100, ConfScale)

\* f"{top_conf*100:.2f}%": percent with two decimals, units of 1e-4.  The
\* product of a float32 value and 100 is exact in a double.
FmtPct(conf) == RoundHalfEven(conf * 10000, ConfScale)

\* Variant: an opener that accepts any byte sequence.
ImageOpen_any(kind) == TRUE

\* Image.open(uploaded_file): identifies the format from the header.
ImageOpen(kind) == kind # "notimage"

\* st.image(image): decodes the pixel data.
ImageLoad(kind) == kind # "truncated"

\* image.save("<tmp>.jpg"): the JPEG writer has no alpha channel.
JpegWritable(mode) == mode \in {"RGB"}

\* Variant: names.get(cls_id, "unknown") instead of names[cls_id].
NamesLookup_default(c) ==
    [exc |-> "none", val |-> IF c \in DOMAIN names THEN names[c] ELSE "unknown"]

\* model.names[cls_id]
NamesLookup(c) ==
    IF c \in DOMAIN names THEN [exc |-> "none", val |-> names[c]]
    ELSE [exc |-> "KeyError", val |-> ""]

\* len(results[0].boxes)
total_detections(results) == Len(results[1].boxes)

\* Variant: the label of the most confident box instead of box 0.
top_class_by_confidence(results) ==
    IF total_detections(results) > 0
    THEN LET bs == results[1].boxes
             best == CHOOSE i \in 1..Len(bs) :
                         \A j \in 1..Len(bs) : bs[i].conf >= bs[j].conf
         IN  NamesLookup(bs[best].cls)
    ELSE [exc |-> "none", val |-> "N/A"]

\* Variant: boxes.cls[0] without the total_detections > 0 guard.
top_class_unguarded(results) ==
    IF Len(results[1].boxes) >= 1
    THEN NamesLookup(results[1].boxes[1].cls)
    ELSE [exc |-> "IndexError", val |-> ""]

\* top_class: label of boxes.cls[0], or "N/A" without boxes
top_class(results) ==
    IF total_detections(results) > 0
    THEN NamesLookup(results[1].boxes[1].cls)
    ELSE [exc |-> "none", val |-> "N/A"]

\* top_conf: boxes.conf[0], or 0 without boxes
top_conf(results) ==
    IF total_detections(results) > 0
    THEN [exc |-> "none", val |-> results[1].boxes[1].conf]
    ELSE [exc |-> "none", val |-> 0]


\* for r in results: for box in r.boxes: st.write(names[cls_id], conf:.2f)
\* Lines already written stay on the page when a later lookup raises.
\* sb > 0: a widget event is pending at the sb-th st.write call, which ends
\* the run there, after that box's label lookup and before its line.
RECURSIVE ListBoxes(_, _)
ListBoxes(bs, sb) ==
    IF bs = <<>> THEN [exc |-> "none", shown |-> <<>>, stopped |-> FALSE]
    ELSE LET n == NamesLookup(Head(bs).cls)
         IN  IF n.exc # "none"
             THEN [exc |-> n.exc, shown |-> <<>>, stopped |-> FALSE]
             ELSE IF sb = 1
             THEN [exc |-> "none", shown |-> <<>>, stopped |-> TRUE]
             ELSE LET rest == ListBoxes(Tail(bs),
                                        IF sb = 0 THEN 0 ELSE sb - 1)
                  IN  [exc |-> rest.exc,
                       shown |-> <<[name |-> n.val,
                                    conf |-> Fmt2(Head(bs).conf)]>>
                                 \o rest.shown,
                       stopped |-> rest.stopped]

RECURSIVE ListResults(_, _)
ListResults(rs, sb) ==
    IF rs = <<>> THEN [exc |-> "none", shown |-> <<>>, stopped |-> FALSE]
    ELSE LET first == ListBoxes(Head(rs).boxes, sb)
             n == Len(Head(rs).boxes)
         IN  IF first.exc # "none" \/ first.stopped THEN first
             ELSE LET rest == ListResults(Tail(rs),
                                          IF sb = 0 THEN 0 ELSE sb - n)
                  IN  [exc |-> rest.exc,
                       shown |-> first.shown \o rest.shown,
                       stopped |-> rest.stopped]

\* st.session_state[k] = v
SetKey(ss, k, v) ==
    [x \in (DOMAIN ss) \cup {k} |-> IF x = k THEN v ELSE ss[x]]

\* The first n of the four session_state assignments of lines 103-106.
StoreResults(ss, n, results, result_img, result_pil, path) ==
    LET s1 == IF n >= 1 THEN SetKey(ss, "results", results) ELSE ss
        s2 == IF n >= 2 THEN SetKey(s1, "result_img", result_img) ELSE s1
        s3 == IF n >= 3 THEN SetKey(s2, "result_pil", result_pil) ELSE s2
    IN  IF n >= 4 THEN SetKey(s3, "temp_file_path", path) ELSE s3

\* load_model() as one call of a cold or warm cache by a single thread.
load_model(c, n, loadOK) ==
    IF c # 0 THEN [exc |-> "none", value |-> c, loads |-> 0]
    ELSE IF loadOK THEN [exc |-> "none", value |-> n + 1, loads |-> 1]
    ELSE [exc |-> "ModelLoadError", value |-> 0, loads |-> 0]

\* ------------------------------------------------------- one script run
\* A rerun ends at the last line, at an uncaught exception, or at a yield
\* point while another widget event of the session is pending: Streamlit
\* then ends the running script there, without an error, and starts the
\* rerun for the new event.  Yield points are the st.* element calls and
\* every access to st.session_state (before the access takes effect).  A
\* stop point is named by the line of its call; calls between which
\* nothing observable happens share one:
\*   11  lines 11-63, before load_model()
\*   74  lines 74-87, after load_model(), before the Analyze button
\*   88  lines 88-90, button drawn and clicked, no temp file yet
\*   96  lines 96-103: after the model call, before the first assignment
\*   104 the result_img assignment: 'results' is stored
\*   105 the result_pil assignment: 'results', 'result_img' are stored
\*   106 the temp_file_path assignment: three keys are stored
\*   107 leaving the st.spinner block, whose exit clears the spinner
\*       element: after line 106, or while an exception raised at 93, 94
\*       or 99-100 unwinds, which the stop then replaces
\*   109 lines 109-118: the session_state test and reads, st.tabs and
\*       st.image: nothing of the result drawn
\*   119 lines 119-123: the annotated image drawn, no detection line
\*   128 the st.write of one box
\*   131 lines 131-137: the list drawn, no metric
\*   138 cols[1].metric: Total Detections drawn
\*   139 cols[2].metric: Total Detections and Top Class drawn
\*   144 st.download_button: the three metrics drawn
\*   148 lines 148-154: the download button drawn, before os.remove
StopLines ==
    {11, 74, 88, 96, 104, 105, 106, 107, 109, 119, 128, 131, 138, 139, 144,
     148}

\* The page and the effects of a rerun before any line has executed.
\* summary holds the metrics drawn so far: total, top class, top confidence;
\* wrote counts the session_state assignments done, stored says all four.
NoRun(kind, clicked) ==
    [clicked |-> clicked, kind |-> kind, error |-> "none", line |-> 0,
     stopped |-> FALSE,
     created |-> 0, inferred |-> FALSE, wrote |-> 0, stored |-> FALSE,
     button |-> FALSE,
     image |-> FALSE, listed |-> <<>>, summary |-> <<>>,
     download |-> FALSE, removed |-> 0]

\* An uncaught exception: the rerun stops at this line.
Raise(m, exc, line) == [m EXCEPT !.run.error = exc, !.run.line = line]

\* The rerun is ended at the yield point of this line by a pending event.
Stop(m, line) == [m EXCEPT !.run.stopped = TRUE, !.run.line = line]

Ended(m) == m.run.error # "none" \/ m.run.stopped

\* An exception raised inside the st.spinner block passes the block's exit.
RaiseInSpinner(m, exc, line, stop) ==
    IF stop = 107 THEN Stop(m, 107) ELSE Raise(m, exc, line)

\* The body of `if st.button("Analyze Image")`.
AnalyzeHandler(m, kind, modelOK, boxes, plotOK, stop) ==
    IF stop = 88 THEN Stop(m, 88)
    ELSE
    LET t == m.nextTmp
        m1 == [m EXCEPT !.files = @ \cup {t}, !.nextTmp = t + 1,
                        !.run.created = t]
    IN  IF ~JpegWritable(kind) THEN RaiseInSpinner(m1, "OSError", 93, stop)
        ELSE IF ~modelOK
        THEN RaiseInSpinner(m1, "InferenceError", 94, stop)
        ELSE LET results == <<[run |-> t, boxes |-> boxes]>>
                 m2 == [m1 EXCEPT !.run.inferred = TRUE]
                 wr(n) == [m2 EXCEPT
                             !.ss = StoreResults(@, n, results, [run |-> t],
                                                 [run |-> t], t),
                             !.run.wrote = n,
                             !.run.stored = (n = 4)]
             IN  IF stop = 96 THEN Stop(m2, 96)
                 ELSE IF ~plotOK
                 THEN RaiseInSpinner(m2, "RenderError", 99, stop)
                 ELSE IF stop \in {104, 105, 106}
                 THEN Stop(wr(stop - 103), stop)
                 ELSE IF stop = 107 THEN Stop(wr(4), 107)
                 ELSE wr(4)

\* with col1:
Col1(m, kind, clicked, modelOK, boxes, plotOK, stop) ==
    IF kind = "none" THEN m
    ELSE IF ~ImageOpen(kind) THEN Raise(m, "UnidentifiedImageError", 84)
    ELSE IF ~ImageLoad(kind) THEN Raise(m, "OSError", 85)
    ELSE LET m1 == [m EXCEPT !.run.button = TRUE]
         IN  IF clicked
             THEN AnalyzeHandler(m1, kind, modelOK, boxes, plotOK, stop)
             ELSE m1

\* with col2:  The values stored by lines 99-106 are a 3-channel array and
\* its RGB image, which st.image (118) and the JPEG writer (143) accept.
Col2(m, stop, stopBox) ==
    IF stop = 109 THEN Stop(m, 109)
    ELSE IF "results" \notin DOMAIN m.ss THEN m
    ELSE IF "result_img" \notin DOMAIN m.ss THEN Raise(m, "KeyError", 111)
    ELSE IF "result_pil" \notin DOMAIN m.ss THEN Raise(m, "KeyError", 112)
    ELSE IF "temp_file_path" \notin DOMAIN m.ss
    THEN Raise(m, "KeyError", 113)
    ELSE
    LET results == m.ss["results"]
        path == m.ss["temp_file_path"]
        m1 == [m EXCEPT !.run.image = TRUE]
        lst == ListResults(results, IF stop = 128 THEN stopBox ELSE 0)
        m2 == [m1 EXCEPT !.run.listed = lst.shown]
    IN  IF stop = 119 THEN Stop(m1, 119)
        ELSE IF lst.exc # "none" THEN Raise(m2, lst.exc, 128)
        ELSE IF lst.stopped THEN Stop(m2, 128)
        ELSE IF stop = 131 THEN Stop(m2, 131)
        ELSE
        LET tc == top_class(results)
            tf == top_conf(results)
        IN  IF tc.exc # "none" THEN Raise(m2, tc.exc, 134)
            ELSE IF tf.exc # "none" THEN Raise(m2, tf.exc, 135)
            ELSE
            LET c0 == [m2 EXCEPT !.run.summary =
                                     <<total_detections(results)>>]
                c1 == [c0 EXCEPT !.run.summary = @ \o <<tc.val>>]
                c2 == [c1 EXCEPT !.run.summary = @ \o <<FmtPct(tf.val)>>]
                m4 == [c2 EXCEPT !.run.download = TRUE]
            IN  IF stop = 138 THEN Stop(c0, 138)
                ELSE IF stop = 139 THEN Stop(c1, 139)
                ELSE IF stop = 144 THEN Stop(c2, 144)
                ELSE IF stop = 148 THEN Stop(m4, 148)
                ELSE IF path \notin m4.files
                THEN Raise(m4, "FileNotFoundError", 156)
                ELSE [m4 EXCEPT !.files = @ \ {path},
                                !.run.removed = path]

\* Lines 73-156 for one rerun.
Script(m, kind, clicked, modelOK, boxes, plotOK, stop, stopBox) ==
    IF stop = 74 THEN Stop(m, 74)
    ELSE LET a == Col1(m, kind, clicked, modelOK, boxes, plotOK, stop)
         IN  IF Ended(a) THEN a ELSE Col2(a, stop, stopBox)

\* Lines 1-156 for one rerun, from the state before it.
RunResult(kind, clicked, loadOK, modelOK, boxes, plotOK, stop, stopBox) ==
    LET early == stop = 11
        lm == IF early THEN [exc |-> "none", value |-> cache, loads |-> 0]
              ELSE load_model(cache, loadCount, loadOK)
        m0 == [ss |-> session_state, files |-> files, nextTmp |-> nextTmp,
               run |-> NoRun(kind, clicked),
               cache |-> lm.value, loadCount |-> loadCount + lm.loads]
    IN  IF early THEN Stop(m0, 11)
        ELSE IF lm.exc # "none" THEN Raise(m0, lm.exc, 71)
        ELSE Script(m0, kind, clicked, modelOK, boxes, plotOK, stop, stopBox)

\* One rerun of the whole script with `kind` in the uploader.
ScriptRun(kind, clicked, loadOK, modelOK, boxes, plotOK, stop, stopBox) ==
    \E m \in {RunResult(kind, clicked, loadOK, modelOK, boxes, plotOK,
                        stop, stopBox)} :
        /\ uploaded' = kind
        /\ cache' = m.cache
        /\ loadCount' = m.loadCount
        /\ session_state' = m.ss
        /\ files' = m.files
        /\ nextTmp' = m.nextTmp
        /\ lastRun' = m.run
        /\ UNCHANGED loadVars

\* The stop points the drawing of stored boxes bs passes: the st.write of
\* box k is reached when boxes 1..k have labels, the lines after the list
\* when all have.
WriteStops(bs) ==
    {k \in 1..Len(bs) : \A j \in 1..k : bs[j].cls \in DOMAIN names}

ResultStops(bs) ==
    {119}
    \cup (IF WriteStops(bs) # {} THEN {128} ELSE {})
    \cup (IF WriteStops(bs) = 1..Len(bs) THEN {131, 138, 139, 144, 148}
          ELSE {})

\* The stop points before the Analyze button.
EarlyStops == {74} \cup (IF cache = 0 THEN {11} ELSE {})

\* The inputs of a rerun without a click that lead to different runs.
PlainInputs(kind) ==
    LET rec(s, k) == [stop |-> s, stopBox |-> k]
        bs == session_state["results"][1].boxes
    IN  {rec(s, 1) : s \in {0} \cup EarlyStops}
        \cup (IF kind \notin Undecodable THEN {rec(109, 1)} ELSE {})
        \cup (IF kind \notin Undecodable /\ Keys \subseteq DOMAIN session_state
              THEN {rec(s, 1) : s \in ResultStops(bs) \ {128}}
                   \cup {rec(128, k) : k \in WriteStops(bs)}
              ELSE {})

\* A rerun in which the Analyze button was not clicked.
PlainRun(kind) ==
    \E loadOK \in (IF cache = 0 THEN BOOLEAN ELSE {TRUE}),
       i \in PlainInputs(kind) :
        ScriptRun(kind, FALSE, loadOK, TRUE, <<>>, TRUE, i.stop, i.stopBox)

\* The runs of the handler on an image the JPEG writer accepts, from
\* line 92 on: what the model call returns or that it raises, whether
\* plot() raises, and where a pending event ends the run.
HandlerInputs ==
    LET rec(mo, b, po, s, k) ==
            [modelOK |-> mo, boxes |-> b, plotOK |-> po, stop |-> s,
             stopBox |-> k]
    IN  {rec(FALSE, <<>>, TRUE, s, 1) : s \in {0, 107}}
        \cup {rec(TRUE, <<>>, TRUE, 96, 1)}
        \cup {rec(TRUE, <<>>, FALSE, s, 1) : s \in {0, 107}}
        \cup UNION {
               {rec(TRUE, b, TRUE, s, 1) :
                   s \in ({0, 104, 105, 106, 107, 109}
                          \cup ResultStops(b)) \ {128}}
               \cup {rec(TRUE, b, TRUE, 128, k) : k \in WriteStops(b)}
               : b \in BoxSeqs}

\* The inputs of a rerun with a click on a decodable image of this mode
\* that lead to different runs.
AnalyzeInputs(kind) ==
    LET rec(s) ==
            [modelOK |-> TRUE, boxes |-> <<>>, plotOK |-> TRUE, stop |-> s,
             stopBox |-> 1]
    IN  {rec(s) : s \in EarlyStops \cup {88}}
        \cup (IF ~JpegWritable(kind) THEN {rec(s) : s \in {0, 107}}
              ELSE HandlerInputs)

\* ---------------------------------------------------------------- actions
Callers == 1..NumCallers

Init ==
    /\ uploaded = "none"
    /\ session_state = EmptyState
    /\ files = {}
    /\ nextTmp = 1
    /\ cache = 0
    /\ loadCount = 0
    /\ lastRun = NoRun("none", FALSE)
    /\ pc = [c \in Callers |-> "idle"]
    /\ got = [c \in Callers |-> 0]
    /\ lock = 0
    /\ calls = [c \in Callers |-> 0]

\* The user picks a file; the uploader change reruns the script.
Upload == \E kind \in UploadKinds : PlainRun(kind)

\* The user removes the file from the uploader.
ClearUpload == uploaded # "none" /\ PlainRun("none")

\* The user clicks "Analyze Image", which the last run rendered.
ClickAnalyze ==
    /\ lastRun.button
    /\ nextTmp <= MaxRuns
    /\ \E loadOK \in (IF cache = 0 THEN BOOLEAN ELSE {TRUE}),
          i \in AnalyzeInputs(uploaded) :
          ScriptRun(uploaded, TRUE, loadOK, i.modelOK, i.boxes, i.plotOK,
                    i.stop, i.stopBox)

\* The user clicks "Download Result", which the last run rendered.
ClickDownload == lastRun.download /\ PlainRun(uploaded)

\* Page load or a manual rerun.
Rerun == PlainRun(uploaded)

Next == Upload \/ ClearUpload \/ ClickAnalyze \/ ClickDownload \/ Rerun

Spec == Init /\ [][Next]_vars


\* ------------------------------------------- concurrent cold start
\* Each session runs the script in its own thread.  With an empty uploader
\* and an empty session_state the script does nothing but call
\* load_model(), so a run is the steps of the st.cache_resource wrapper:
\* read the cache; on a miss take the compute lock, read again, call the
\* function, write the value, release the lock.

\* Variant: no mutual exclusion on the compute path.
LockFree_always(l) == TRUE

\* The compute lock admits one thread.
LockFree(l) == l = 0

InitLoad == Init

\* A session starts a script run and reaches `model = load_model()`.
Call(c) ==
    /\ pc[c] = "idle"
    /\ calls[c] < MaxCalls
    /\ calls' = [calls EXCEPT ![c] = @ + 1]
    /\ pc' = [pc EXCEPT ![c] = "read"]
    /\ UNCHANGED <<uploaded, session_state, files, nextTmp, cache,
                   loadCount, lastRun, got, lock>>

\* First cache read, outside the lock.
Read(c) ==
    /\ pc[c] = "read"
    /\ IF cache # 0
       THEN /\ got' = [got EXCEPT ![c] = cache]
            /\ pc' = [pc EXCEPT ![c] = "idle"]
       ELSE /\ pc' = [pc EXCEPT ![c] = "acquire"]
            /\ UNCHANGED got
    /\ UNCHANGED <<uploaded, session_state, files, nextTmp, cache,
                   loadCount, lastRun, lock, calls>>

\* Enter the compute lock.
Acquire(c) ==
    /\ pc[c] = "acquire"
    /\ LockFree(lock)
    /\ lock' = c
    /\ pc' = [pc EXCEPT ![c] = "reread"]
    /\ UNCHANGED <<uploaded, session_state, files, nextTmp, cache,
                   loadCount, lastRun, got, calls>>

\* Second cache read, inside the lock.
Reread(c) ==
    /\ pc[c] = "reread"
    /\ IF cache # 0
       THEN /\ got' = [got EXCEPT ![c] = cache]
            /\ lock' = IF lock = c THEN 0 ELSE lock
            /\ pc' = [pc EXCEPT ![c] = "idle"]
       ELSE /\ pc' = [pc EXCEPT ![c] = "compute"]
            /\ UNCHANGED <<got, lock>>
    /\ UNCHANGED <<uploaded, session_state, files, nextTmp, cache,
                   loadCount, lastRun, calls>>

\* The function body, YOLO(model_path): a new instance, or an exception
\* that leaves the lock and aborts the run.
Compute(c) ==
    /\ pc[c] = "compute"
    /\ \E loadOK \in BOOLEAN :
          IF loadOK
          THEN /\ loadCount' = loadCount + 1
               /\ got' = [got EXCEPT ![c] = loadCount + 1]
               /\ pc' = [pc EXCEPT ![c] = "write"]
               /\ UNCHANGED lock
          ELSE /\ lock' = IF lock = c THEN 0 ELSE lock
               /\ pc' = [pc EXCEPT ![c] = "idle"]
               /\ UNCHANGED <<loadCount, got>>
    /\ UNCHANGED <<uploaded, session_state, files, nextTmp, cache,
                   lastRun, calls>>

\* Store the value, leave the lock, return it.
Write(c) ==
    /\ pc[c] = "write"
    /\ cache' = got[c]
    /\ lock' = IF lock = c THEN 0 ELSE lock
    /\ pc' = [pc EXCEPT ![c] = "idle"]
    /\ UNCHANGED <<uploaded, session_state, files, nextTmp, loadCount,
                   lastRun, got, calls>>

NextLoad ==
    \E c \in Callers :
        Call(c) \/ Read(c) \/ Acquire(c) \/ Reread(c) \/ Compute(c)
        \/ Write(c)

SpecLoad == InitLoad /\ [][NextLoad]_vars


\* ------------------------------------------------------------ properties
Range(f) == {f[x] : x \in DOMAIN f}

HasResults == Keys \subseteq DOMAIN session_state

StoredBoxes == session_state["results"][1].boxes

\* Col2 went past the session_state reads and started drawing the tab.
Displayed == lastRun.image

\* The detection lines the page must show for boxes bs, in emission order.
ExpectedList(bs) ==
    [i \in 1..Len(bs) |-> [name |-> names[bs[i].cls],
                           conf |-> Fmt2(bs[i].conf)]]

AllLabelled(bs) == \A i \in 1..Len(bs) : bs[i].cls \in DOMAIN names

\* C1: whenever the summary of a result with at least one box is on the
\* page, Total Detections is the number of boxes of results[0], Top Class
\* and Top Confidence are the label and confidence of box 0, and the
\* detection lines are the boxes in emission order; an analysis with at
\* least one box, all labelled, whose rerun is not ended early by another
\* widget event does show that summary.
C1_SummaryAgreesWithDetections ==
    /\ (HasResults /\ Displayed /\ lastRun.summary # <<>>
        /\ Len(StoredBoxes) > 0)
       => /\ lastRun.summary
               = SubSeq(<<Len(StoredBoxes), names[StoredBoxes[1].cls],
                          FmtPct(StoredBoxes[1].conf)>>,
                        1, Len(lastRun.summary))
          /\ lastRun.listed = ExpectedList(StoredBoxes)
    /\ (lastRun.stored /\ ~lastRun.stopped
        /\ Len(StoredBoxes) > 0 /\ AllLabelled(StoredBoxes))
       => Len(lastRun.summary) = 3

\* A summary for two boxes where box 0 is neither the most confident nor
\* of the same class as box 1.
C1_Witness ==
    /\ HasResults /\ lastRun.stored /\ Len(lastRun.summary) = 3
    /\ Len(StoredBoxes) = 2
    /\ StoredBoxes[1].cls # StoredBoxes[2].cls
    /\ StoredBoxes[1].conf < StoredBoxes[2].conf

\* C2: when a rerun has run to its last line or to an exception, the temp
\* file it created no longer exists.
C2_TempFilesReleased ==
    (lastRun.created # 0 /\ ~lastRun.stopped)
    => lastRun.created \notin files

\* C3: over any interleaving of the sessions' runs the model is
\* constructed at most once, exactly once as soon as it is cached or held,
\* and every handle a caller holds is the cached instance.
C3_LoadedExactlyOnce ==
    /\ loadCount <= 1
    /\ cache # 0 => cache = 1 /\ loadCount = 1
    /\ \A c \in Callers : got[c] # 0 => got[c] = 1 /\ loadCount = 1
    /\ \A c, d \in Callers : (got[c] # 0 /\ got[d] # 0) => got[c] = got[d]

\* One caller has constructed the model while every other caller missed
\* the cold cache and waits for the compute lock.
C3_Witness ==
    /\ loadCount = 1
    /\ \E c \in Callers :
          /\ pc[c] = "write"
          /\ \A d \in Callers \ {c} : pc[d] = "acquire"

\* C4: a rerun whose annotated-image step raised after the model call
\* returned still stores and shows that analysis' numeric results.
C4_RenderFailureNonFatal ==
    lastRun.line = 99
    => /\ lastRun.stored
       /\ HasResults
       /\ session_state["temp_file_path"] = lastRun.created
       /\ Len(lastRun.summary) = 3

\* C5: a rerun with undecodable bytes in the uploader stops with the
\* decoder's error (or earlier: when the model itself cannot be loaded, or
\* when another widget event ends the run before the decoder is reached),
\* leaves session_state and the temp files as they were, and neither
\* reloads nor replaces an already cached model.
C5_DecodeErrorLeavesStateUnchanged ==
    [][lastRun'.kind \in Undecodable
       => /\ IF lastRun'.stopped THEN lastRun'.line \in {11, 74}
             ELSE lastRun'.line \in {71, 84, 85}
          /\ lastRun'.line \in {84, 85}
             => lastRun'.error \in {"UnidentifiedImageError", "OSError"}
          /\ session_state' = session_state
          /\ files' = files /\ nextTmp' = nextTmp
          /\ cache # 0 => (cache' = cache /\ loadCount' = loadCount)]_vars

\* A decode failure in a session that holds results and a loaded model.
C5_Witness ==
    /\ lastRun.kind \in Undecodable
    /\ lastRun.line = 84
    /\ HasResults
    /\ cache # 0

\* C6: for a result without boxes the page shows no detection line and
\* the summary Total Detections 0, Top Class "N/A", Top Confidence 0, and
\* the analysis run that produced it ends without an error; the summary is
\* missing only when another widget event ended the rerun before it.
C6_ZeroDetectionsIsSuccess ==
    /\ (HasResults /\ Displayed /\ StoredBoxes = <<>>)
       => /\ lastRun.listed = <<>>
          /\ lastRun.summary
               = SubSeq(<<0, "N/A", 0>>, 1, Len(lastRun.summary))
          /\ ~lastRun.stopped => Len(lastRun.summary) = 3
    /\ (lastRun.stored /\ StoredBoxes = <<>>)
       => /\ lastRun.error = "none"
          /\ ~lastRun.stopped => (Displayed /\ Len(lastRun.summary) = 3)

\* An analysis that found nothing and was displayed.
C6_Witness ==
    /\ HasResults /\ lastRun.stored /\ StoredBoxes = <<>>
    /\ lastRun.summary = <<0, "N/A", 0>>

\* C7: every detection line and the Top Class carry a label of the label
\* table, the label of that box's class index; a stored box whose index has
\* no label ends the drawing rerun with KeyError before the summary, unless
\* another widget event ended it earlier.
C7_OnlyLabelledDetectionsShown ==
    /\ \A i \in 1..Len(lastRun.listed) :
          /\ lastRun.listed[i].name \in Range(names)
          /\ StoredBoxes[i].cls \in DOMAIN names
          /\ lastRun.listed[i].name = names[StoredBoxes[i].cls]
    /\ Len(lastRun.summary) >= 2
       => lastRun.summary[2] \in Range(names) \cup {"N/A"}
    /\ (HasResults /\ Displayed /\ ~AllLabelled(StoredBoxes))
       => /\ lastRun.summary = <<>>
          /\ Len(lastRun.listed) < Len(StoredBoxes)
          /\ ~lastRun.stopped
             => (lastRun.error = "KeyError" /\ lastRun.line = 128)

\* A labelled box was listed, then the lookup of the next box raised.
C7_Witness ==
    /\ lastRun.error = "KeyError"
    /\ lastRun.line = 128
    /\ Len(lastRun.listed) = 1

\* C8: Analyze on an RGBA image either completes or fails with a
\* validation error.
C8_AlphaConvertsOrValidationError ==
    (lastRun.clicked /\ lastRun.kind = "RGBA")
    => lastRun.error \in {"none", "ValidationError"}

\* C9: no rerun reaches os.remove with a path that no longer exists.
C9_RemoveOnlyExistingPath ==
    ~(lastRun.error = "FileNotFoundError" /\ lastRun.line = 156)

\* C10: session_state holds all four keys or none, the four values come
\* from one Analyze run, and a rerun that raised in image.save, the model
\* call or plot() has written none of them.
C10_SessionKeysAllOrNothing ==
    /\ DOMAIN session_state \in {{}, Keys}
    /\ HasResults
       => /\ Len(session_state["results"]) = 1
          /\ session_state["results"][1].run
                = session_state["temp_file_path"]
          /\ session_state["result_img"].run
                = session_state["temp_file_path"]
          /\ session_state["result_pil"].run
                = session_state["temp_file_path"]
    /\ lastRun.line \in {93, 94, 99} => lastRun.wrote = 0

====
